---- MODULE Spec2Model ----
(***************************************************************************)
(* A model of the handbook's runnable snippets: the accessor example       *)
(* (Employee5 / Employee6), the var / let scoping functions, the two       *)
(* sumMatrix variants, the for-let setTimeout loop and the Animal1         *)
(* inheritance example, foo1 and createClock.  Every snippet is an independent script; Init      *)
(* picks the script and its inputs, the actions are its statements.        *)
(***************************************************************************)
EXTENDS Integers, Sequences, FiniteSets, TLC

VARIABLES script, pc, args, matrix, heap, cur, ret, console,
          passcode, employee5, employee6, timers, now, sam, tom,
          objects, digital, analog

vars == <<script, pc, args, matrix, heap, cur, ret, console,
          passcode, employee5, employee6, timers, now, sam, tom,
          objects, digital, analog>>

(***************************************************************************)
(* Bounds                                                                  *)
(***************************************************************************)
MaxRows == 2
MaxCols == 2
MaxLog == 3
MaxScriptDelay == 1

\* the elements of the matrices
Elems == {1, 2}

\* no sum of a matrix within the bounds exceeds MaxSum
MaxSum == MaxRows * MaxCols * 2

(***************************************************************************)
(* JavaScript values.  Every value is a record of the same shape so that   *)
(* values of different JavaScript types can be compared.                   *)
(***************************************************************************)
Val(tag, n, s) == [tag |-> tag, n |-> n, s |-> s]
Undefined == Val("undefined", 0, "")
Absent == Val("absent", 0, "")
ReferenceError == Val("ReferenceError", 0, "")
\* the state of a let binding before its declaration has run
Uninitialized == Val("uninitialized", 0, "")
Num(n) == Val("number", n, "")
Str(s) == Val("string", 0, s)
Bool(b) == Val("boolean", IF b THEN 1 ELSE 0, "")
Closure(s, name) == Val("function", s, name)
RowRef(r) == Val("object", r, "")

\* ToBoolean, as applied by `if (e)` and by `a && b`
Truthy(v) ==
    CASE v.tag = "boolean" -> v.n = 1
      [] v.tag = "number" -> v.n # 0
      [] v.tag = "string" -> v.s # ""
      [] v.tag = "undefined" -> FALSE
      [] OTHER -> TRUE

(***************************************************************************)
(* Scopes.  The heap is a sequence of scopes; a scope is identified by its *)
(* index, names its parent (0 for none) and maps the names it declares to  *)
(* their values (Absent for a name it does not declare).                   *)
(***************************************************************************)
VarNames == {"a", "b", "g", "x", "y", "condition", "shouldInitialize",
             "getCity", "city", "matrix", "sum", "i", "currentRow",
             "d", "foo1"}

NoVars == [v \in VarNames |-> Absent]

GlobalHeap == << [kind |-> "function", parent |-> 0, vars |-> NoVars] >>

\* a new scope of the given kind under parent p; its id is Len(h) + 1
NewScope(h, kind, p) ==
    [heap |-> Append(h, [kind |-> kind, parent |-> p, vars |-> NoVars]),
     cur |-> Len(h) + 1]

RECURSIVE Resolve_outermost(_, _, _)
Resolve_outermost(h, s, name) ==
    IF s = 0 THEN 0
    ELSE LET up == Resolve_outermost(h, h[s].parent, name)
         IN IF up # 0 THEN up
            ELSE IF h[s].vars[name] # Absent THEN s ELSE 0

\* the scope that a use of `name` in scope s refers to: the innermost
\* enclosing scope that declares it (0: none)
RECURSIVE Resolve(_, _, _)
Resolve(h, s, name) ==
    IF s = 0 THEN 0
    ELSE IF h[s].vars[name] # Absent THEN s
    ELSE Resolve(h, h[s].parent, name)

Lookup_permissive(h, s, name) ==
    LET r == Resolve(h, s, name)
    IN IF r = 0 THEN ReferenceError
       ELSE IF h[r].vars[name] = Uninitialized THEN Undefined
       ELSE h[r].vars[name]

\* reading a variable: an error when no scope declares it, and when its
\* let declaration has not run yet
Lookup(h, s, name) ==
    LET r == Resolve(h, s, name)
    IN IF r = 0 \/ h[r].vars[name] = Uninitialized THEN ReferenceError
       ELSE h[r].vars[name]

\* name = v
Assign(h, s, name, v) ==
    LET r == Resolve(h, s, name)
    IN IF r = 0 THEN h ELSE [h EXCEPT ![r].vars[name] = v]

\* the function scope that contains scope s
RECURSIVE VarScope(_, _)
VarScope(h, s) ==
    IF h[s].kind = "function" \/ h[s].parent = 0 THEN s
    ELSE VarScope(h, h[s].parent)

\* the declaration of a binding in scope s itself
Declare(h, s, name, v) == [h EXCEPT ![s].vars[name] = v]

VarInit_block(h, s, name, v) == Declare(h, s, name, v)

\* var name = v: the variable lives in the containing function's scope
VarInit(h, s, name, v) == Declare(h, VarScope(h, s), name, v)

LetInit_function(h, s, name, v) == Declare(h, VarScope(h, s), name, v)

\* let name = v: the variable lives in the block that contains the statement
LetInit(h, s, name, v) == Declare(h, s, name, v)

ClosureEnv_dynamic(f, caller) == caller

\* the scope a called function's own scope is nested in: the scope the
\* function was created in, not the scope of the call
ClosureEnv(f, caller) == f.n

\* entering a function: a new function scope under the closure's scope
Enter(h, f, caller) == NewScope(h, "function", ClosureEnv(f, caller))

(***************************************************************************)
(* var-declaration.ts: fun, foo                                            *)
(* A call yields the heap it leaves, the scope of the call and the value   *)
(* returned.                                                               *)
(***************************************************************************)
Return(h, f, v) == [heap |-> h, cur |-> f, ret |-> v]

\* function g() { return a; } of fun, called from scope `caller`
fun_g(h, f, caller) ==
    LET e == Enter(h, f, caller)
    IN Lookup(e.heap, e.cur, "a")

fun_early ==
    LET e == Enter(GlobalHeap, Closure(1, "fun"), 1)
        f == e.cur
        h0 == Declare(Declare(e.heap, f, "a", Undefined), f, "b", Undefined)
        h1 == Declare(h0, f, "g", Closure(f, "g"))
        h2 == VarInit(h1, f, "a", Num(1))
        h3 == VarInit(h2, f, "b", fun_g(h2, Lookup(h2, f, "g"), f))
        h4 == Assign(h3, f, "a", Num(2))
        h5 == Assign(h4, f, "a", Num(3))
    IN Return(h5, f, Lookup(h5, f, "b"))

\* fun(): the vars a, b and the function g are hoisted to the function scope
fun ==
    LET e == Enter(GlobalHeap, Closure(1, "fun"), 1)
        f == e.cur
        h0 == Declare(Declare(e.heap, f, "a", Undefined), f, "b", Undefined)
        h1 == Declare(h0, f, "g", Closure(f, "g"))
        h2 == VarInit(h1, f, "a", Num(1))
        h3 == Assign(h2, f, "a", Num(2))
        h4 == VarInit(h3, f, "b", fun_g(h3, Lookup(h3, f, "g"), f))
        h5 == Assign(h4, f, "a", Num(3))
    IN Return(h5, f, Lookup(h5, f, "b"))

\* foo(shouldInitialize): var x is hoisted; the if block is a block scope
foo(shouldInitialize) ==
    LET e == Enter(GlobalHeap, Closure(1, "foo"), 1)
        f == e.cur
        h0 == Declare(e.heap, f, "shouldInitialize", shouldInitialize)
        h1 == Declare(h0, f, "x", Undefined)
        b == NewScope(h1, "block", f)
        h2 == IF Truthy(Lookup(h1, f, "shouldInitialize"))
              THEN VarInit(b.heap, b.cur, "x", Num(10))
              ELSE h1
    IN Return(h2, f, Lookup(h2, f, "x"))

(***************************************************************************)
(* let-declarations.ts: fun1, theCityThatAlwaysSleeps                      *)
(***************************************************************************)
\* fun1(condition, y)
fun1(condition, y) ==
    LET e == Enter(GlobalHeap, Closure(1, "fun1"), 1)
        f == e.cur
        h0 == Declare(Declare(e.heap, f, "condition", condition), f, "y", y)
        b == NewScope(h0, "block", f)
        h1 == LetInit(b.heap, b.cur, "y", Num(100))
    IN IF Truthy(Lookup(h0, f, "condition"))
       THEN Return(h1, f, Lookup(h1, b.cur, "y"))
       ELSE Return(h0, f, Lookup(h0, f, "y"))

\* function() { return city; } of theCityThatAlwaysSleeps
getCity(h, f, caller) ==
    LET e == Enter(h, f, caller)
    IN Lookup(e.heap, e.cur, "city")

\* theCityThatAlwaysSleeps(): the if (true) block is a block scope, left
\* before getCity is called from the function's scope
theCityThatAlwaysSleeps ==
    LET e == Enter(GlobalHeap, Closure(1, "theCityThatAlwaysSleeps"), 1)
        f == e.cur
        h0 == LetInit(e.heap, f, "getCity", Undefined)
        b == NewScope(h0, "block", f)
        h1 == LetInit(b.heap, b.cur, "city", Str("Seattle"))
        h2 == Assign(h1, b.cur, "getCity", Closure(b.cur, "getCity"))
    IN Return(h2, f, getCity(h2, Lookup(h2, f, "getCity"), f))

(***************************************************************************)
(* The for-let loop: a scope for the loop variable, and a fresh copy of it *)
(* for every iteration.                                                    *)
(***************************************************************************)
\* for (let name = v; ...): the loop variable lives in a scope of its own
ForLetInit(h, s, name, v) ==
    LET n == NewScope(h, "block", s)
    IN [heap |-> LetInit(n.heap, n.cur, name, v), cur |-> n.cur]

ForLetNext_shared(h, it, name) ==
    [heap |-> Assign(h, it, name, Num(Lookup(h, it, name).n + 1)), cur |-> it]

\* name++ at the end of an iteration: the next iteration gets a new scope,
\* a copy of the last one, and the increment is applied to the copy
ForLetNext(h, it, name) ==
    LET n == NewScope(h, "block", h[it].parent)
        copied == [n.heap EXCEPT ![n.cur].vars = h[it].vars]
    IN [heap |-> Assign(copied, n.cur, name,
                        Num(Lookup(copied, n.cur, name).n + 1)),
        cur |-> n.cur]

(***************************************************************************)
(* Inputs and the initial state                                            *)
(***************************************************************************)
Scripts == {"accessors", "fun", "foo", "fun1", "theCityThatAlwaysSleeps",
            "sumMatrix", "sumMatrix1", "timers", "inheritance", "foo1", "clock"}

JSValues == {Undefined, Bool(TRUE), Bool(FALSE), Num(0), Num(1), Num(100),
             Str(""), Str("a")}

RECURSIVE SeqsUpTo(_, _)
SeqsUpTo(S, n) ==
    IF n = 0 THEN {<<>>}
    ELSE LET shorter == SeqsUpTo(S, n - 1)
         IN shorter \cup {Append(q, x) : q \in shorter, x \in S}

Rows == SeqsUpTo(Elems, MaxCols)
Matrices == SeqsUpTo(Rows, MaxRows)

\* the compiler's output: ES2015 keeps let, ES5 emits it as var
Targets == {"ES5", "ES2015"}

ArgsOf(s) ==
    CASE s = "foo" -> {<<b>> : b \in {Bool(TRUE), Bool(FALSE)}}
      [] s = "fun1" -> {<<c, y>> : c \in JSValues, y \in JSValues}
      [] s = "foo1" -> {<<Str(target), Str(callAt)>> :
                          target \in Targets, callAt \in {"before", "after"}}
      [] OTHER -> {<<>>}

NoObject == [class |-> "", name |-> ""]

Init ==
    /\ script \in Scripts
    /\ pc = "start"
    /\ args \in ArgsOf(script)
    /\ matrix \in IF script \in {"sumMatrix", "sumMatrix1"}
                  THEN Matrices ELSE {<<>>}
    /\ heap = GlobalHeap
    /\ cur = 1
    /\ ret = Undefined
    /\ console = <<>>
    /\ passcode = Str("secret passcode")
    /\ employee5 = [fullName |-> Undefined]
    /\ employee6 = [_fullName |-> Undefined]
    /\ timers = {}
    /\ now = 0
    /\ sam = NoObject
    /\ tom = NoObject
    /\ objects = <<>>
    /\ digital = 0
    /\ analog = 0

accVars == <<passcode, employee5, employee6>>
clockVars == <<objects, digital, analog>>
objVars == <<sam, tom, clockVars>>
timerVars == <<timers, now>>
inVars == <<script, args, matrix>>

(***************************************************************************)
(* Calls of the loop-free functions                                        *)
(***************************************************************************)
Call(r) ==
    /\ pc = "start"
    /\ heap' = r.heap
    /\ cur' = r.cur
    /\ ret' = r.ret
    /\ pc' = "done"
    /\ UNCHANGED <<inVars, console, accVars, timerVars, objVars>>

Call_fun == script = "fun" /\ Call(fun)

Call_foo == script = "foo" /\ Call(foo(args[1]))

Call_fun1 == script = "fun1" /\ Call(fun1(args[1], args[2]))

Call_theCityThatAlwaysSleeps ==
    script = "theCityThatAlwaysSleeps" /\ Call(theCityThatAlwaysSleeps)

(***************************************************************************)
(* sumMatrix (var-declaration.ts) and sumMatrix1 (let-declarations.ts),    *)
(* statement by statement.  pc names the source line about to run.         *)
(***************************************************************************)
Step(h, c, next) ==
    /\ heap' = h
    /\ cur' = c
    /\ pc' = next
    /\ UNCHANGED <<inVars, ret, console, accVars, timerVars, objVars>>

I == Lookup(heap, cur, "i").n
Sum == Lookup(heap, cur, "sum").n
CurrentRow == matrix[Lookup(heap, cur, "currentRow").n + 1]

\* the call: parameter matrix, and the hoisted vars of the function
sumMatrix_enter ==
    /\ script = "sumMatrix" /\ pc = "start"
    /\ LET e == Enter(heap, Closure(1, "sumMatrix"), 1)
           h0 == Declare(e.heap, e.cur, "matrix", Val("object", 0, "matrix"))
           h1 == Declare(h0, e.cur, "sum", Undefined)
           h2 == Declare(h1, e.cur, "i", Undefined)
           h3 == Declare(h2, e.cur, "currentRow", Undefined)
       IN Step(h3, e.cur, "L79")

\* var sum = 0;
sumMatrix_L79 ==
    /\ script = "sumMatrix" /\ pc = "L79"
    /\ Step(VarInit(heap, cur, "sum", Num(0)), cur, "L80_init")

\* for (var i = 0; ...
sumMatrix_L80_init ==
    /\ script = "sumMatrix" /\ pc = "L80_init"
    /\ Step(VarInit(heap, cur, "i", Num(0)), cur, "L80_test")

\* ... i < matrix.length; ...
sumMatrix_L80_test ==
    /\ script = "sumMatrix" /\ pc = "L80_test"
    /\ Step(heap, cur, IF I < Len(matrix) THEN "L81" ELSE "L87")

\* var currentRow = matrix[i];
sumMatrix_L81 ==
    /\ script = "sumMatrix" /\ pc = "L81"
    /\ Step(VarInit(heap, cur, "currentRow", RowRef(I)), cur, "L82_init")

\* for (var i = 0; ...
sumMatrix_L82_init ==
    /\ script = "sumMatrix" /\ pc = "L82_init"
    /\ Step(VarInit(heap, cur, "i", Num(0)), cur, "L82_test")

\* ... i < currentRow.length; ...
sumMatrix_L82_test ==
    /\ script = "sumMatrix" /\ pc = "L82_test"
    /\ Step(heap, cur, IF I < Len(CurrentRow) THEN "L83" ELSE "L80_incr")

\* sum += currentRow[i];
sumMatrix_L83 ==
    /\ script = "sumMatrix" /\ pc = "L83"
    /\ Sum + CurrentRow[I + 1] <= MaxSum
    /\ Step(Assign(heap, cur, "sum", Num(Sum + CurrentRow[I + 1])), cur,
            "L82_incr")

\* ... i++) of the inner loop
sumMatrix_L82_incr ==
    /\ script = "sumMatrix" /\ pc = "L82_incr"
    /\ Step(Assign(heap, cur, "i", Num(I + 1)), cur, "L82_test")

sumMatrix_L80_incr_next ==
    /\ script = "sumMatrix" /\ pc = "L80_incr"
    /\ Step(Assign(heap, cur, "i",
                   Num(Lookup(heap, cur, "currentRow").n + 1)), cur, "L80_test")

\* ... i++) of the outer loop
sumMatrix_L80_incr ==
    /\ script = "sumMatrix" /\ pc = "L80_incr"
    /\ Step(Assign(heap, cur, "i", Num(I + 1)), cur, "L80_test")

\* return sum;
sumMatrix_L87 ==
    /\ script = "sumMatrix" /\ pc = "L87"
    /\ ret' = Lookup(heap, cur, "sum")
    /\ pc' = "done"
    /\ UNCHANGED <<inVars, heap, cur, console, accVars, timerVars, objVars>>

sumMatrix ==
    \/ sumMatrix_enter \/ sumMatrix_L79 \/ sumMatrix_L80_init
    \/ sumMatrix_L80_test \/ sumMatrix_L81 \/ sumMatrix_L82_init
    \/ sumMatrix_L82_test \/ sumMatrix_L83 \/ sumMatrix_L82_incr
    \/ sumMatrix_L80_incr \/ sumMatrix_L87

\* the call: parameter matrix, and the hoisted var currentRow
sumMatrix1_enter ==
    /\ script = "sumMatrix1" /\ pc = "start"
    /\ LET e == Enter(heap, Closure(1, "sumMatrix1"), 1)
           h0 == Declare(e.heap, e.cur, "matrix", Val("object", 0, "matrix"))
           h1 == Declare(h0, e.cur, "currentRow", Undefined)
       IN Step(h1, e.cur, "L131")

\* let sum = 0;
sumMatrix1_L131 ==
    /\ script = "sumMatrix1" /\ pc = "L131"
    /\ Step(LetInit(heap, cur, "sum", Num(0)), cur, "L132_init")

\* for (let i = 0; ...
sumMatrix1_L132_init ==
    /\ script = "sumMatrix1" /\ pc = "L132_init"
    /\ LET l == ForLetInit(heap, cur, "i", Num(0))
       IN Step(l.heap, l.cur, "L132_test")

\* ... i < matrix.length; ... (leaving the loop leaves its scope)
sumMatrix1_L132_test ==
    /\ script = "sumMatrix1" /\ pc = "L132_test"
    /\ IF I < Len(matrix)
       THEN Step(heap, cur, "L133")
       ELSE Step(heap, heap[cur].parent, "L138")

\* var currentRow = matrix[i];
sumMatrix1_L133 ==
    /\ script = "sumMatrix1" /\ pc = "L133"
    /\ Step(VarInit(heap, cur, "currentRow", RowRef(I)), cur, "L134_init")

\* for (let i = 0; ...
sumMatrix1_L134_init ==
    /\ script = "sumMatrix1" /\ pc = "L134_init"
    /\ LET l == ForLetInit(heap, cur, "i", Num(0))
       IN Step(l.heap, l.cur, "L134_test")

\* ... i < currentRow.length; ... (leaving the loop leaves its scope)
sumMatrix1_L134_test ==
    /\ script = "sumMatrix1" /\ pc = "L134_test"
    /\ IF I < Len(CurrentRow)
       THEN Step(heap, cur, "L135")
       ELSE Step(heap, heap[cur].parent, "L132_incr")

\* sum += currentRow[i];
sumMatrix1_L135 ==
    /\ script = "sumMatrix1" /\ pc = "L135"
    /\ Sum + CurrentRow[I + 1] <= MaxSum
    /\ Step(Assign(heap, cur, "sum", Num(Sum + CurrentRow[I + 1])), cur,
            "L134_incr")

\* ... i++) of the inner loop
sumMatrix1_L134_incr ==
    /\ script = "sumMatrix1" /\ pc = "L134_incr"
    /\ LET l == ForLetNext(heap, cur, "i")
       IN Step(l.heap, l.cur, "L134_test")

\* ... i++) of the outer loop
sumMatrix1_L132_incr ==
    /\ script = "sumMatrix1" /\ pc = "L132_incr"
    /\ LET l == ForLetNext(heap, cur, "i")
       IN Step(l.heap, l.cur, "L132_test")

\* return sum;
sumMatrix1_L138 ==
    /\ script = "sumMatrix1" /\ pc = "L138"
    /\ ret' = Lookup(heap, cur, "sum")
    /\ pc' = "done"
    /\ UNCHANGED <<inVars, heap, cur, console, accVars, timerVars, objVars>>

sumMatrix1 ==
    \/ sumMatrix1_enter \/ sumMatrix1_L131 \/ sumMatrix1_L132_init
    \/ sumMatrix1_L132_test \/ sumMatrix1_L133 \/ sumMatrix1_L134_init
    \/ sumMatrix1_L134_test \/ sumMatrix1_L135 \/ sumMatrix1_L134_incr
    \/ sumMatrix1_L132_incr \/ sumMatrix1_L138

(***************************************************************************)
(* The accessor example: Employee5, passcode, Employee6                    *)
(***************************************************************************)
Names == {Str("Ashwani Luhaniwal"), Str("Bob Smith"), Str("")}
Passcodes == {Str("secret passcode"), Str("wrong passcode"), Str("")}

Unauthorized == "Error: Unauthorized update of employee!"

\* employee5.fullName = newName
Employee5_set_fullName(e, newName) == [e EXCEPT !.fullName = newName]

\* employee5.fullName
Employee5_get_fullName(e) == e.fullName

\* get fullName() of Employee6
Employee6_get_fullName(e) == e._fullName

Employee6_set_fullName_unchecked(e, p, newName) ==
    [obj |-> [e EXCEPT !._fullName = newName], log |-> <<>>]

Employee6_set_fullName_inverted(e, p, newName) ==
    IF Truthy(p) /\ p # Str("secret passcode")
    THEN [obj |-> [e EXCEPT !._fullName = newName], log |-> <<>>]
    ELSE [obj |-> e, log |-> <<Unauthorized>>]

\* set fullName(newName) of Employee6, with passcode p: the object it
\* leaves and the lines it logs
Employee6_set_fullName(e, p, newName) ==
    IF Truthy(p) /\ p = Str("secret passcode")
    THEN [obj |-> [e EXCEPT !._fullName = newName], log |-> <<>>]
    ELSE [obj |-> e, log |-> <<Unauthorized>>]

\* if (e.fullName) { console.log(e.fullName); }: the lines logged
LogFullName(name) == IF Truthy(name) THEN <<name.s>> ELSE <<>>

\* the passcode is modified
SetPasscode(p) ==
    /\ script = "accessors"
    /\ passcode' = p
    /\ UNCHANGED <<inVars, pc, heap, cur, ret, console, employee5, employee6,
                   timerVars, objVars>>

\* the same name is assigned to fullName of both employees
SetFullName(n) ==
    /\ script = "accessors"
    /\ LET r == Employee6_set_fullName(employee6, passcode, n)
       IN /\ Len(console) + Len(r.log) <= MaxLog
          /\ employee5' = Employee5_set_fullName(employee5, n)
          /\ employee6' = r.obj
          /\ console' = console \o r.log
    /\ UNCHANGED <<inVars, pc, heap, cur, ret, passcode, timerVars, objVars>>

\* fullName of employee5 is read and logged
LogEmployee5 ==
    /\ script = "accessors"
    /\ Len(console) < MaxLog
    /\ console' = console \o LogFullName(Employee5_get_fullName(employee5))
    /\ UNCHANGED <<inVars, pc, heap, cur, ret, accVars, timerVars, objVars>>

\* fullName of employee6 is read and logged
LogEmployee6 ==
    /\ script = "accessors"
    /\ Len(console) < MaxLog
    /\ console' = console \o LogFullName(Employee6_get_fullName(employee6))
    /\ UNCHANGED <<inVars, pc, heap, cur, ret, accVars, timerVars, objVars>>

(***************************************************************************)
(* The for-let setTimeout loop.  Time is in milliseconds.  The script runs *)
(* to completion before any callback; the event loop then runs the due     *)
(* timer that is due first, in the order of the setTimeout calls.          *)
(***************************************************************************)
\* for (let i = 0; ...
timers_L183_init ==
    /\ script = "timers" /\ pc = "start"
    /\ LET l == ForLetInit(heap, cur, "i", Num(0))
       IN Step(l.heap, l.cur, "L183_test")

\* ... i < 10; ...
timers_L183_test ==
    /\ script = "timers" /\ pc = "L183_test"
    /\ IF I < 10
       THEN Step(heap, cur, "L184")
       ELSE Step(heap, heap[cur].parent, "idle")

\* setTimeout(function() { console.log(i); }, 100 * i);
timers_L184 ==
    /\ script = "timers" /\ pc = "L184"
    /\ timers' = timers \cup {[seq |-> Cardinality(timers) + Len(console),
                               fn |-> Closure(cur, "callback"),
                               delay |-> 100 * I,
                               due |-> now + 100 * I]}
    /\ pc' = "L183_incr"
    /\ UNCHANGED <<inVars, heap, cur, ret, console, accVars, now, objVars>>

\* ... i++)
timers_L183_incr ==
    /\ script = "timers" /\ pc = "L183_incr"
    /\ LET l == ForLetNext(heap, cur, "i")
       IN Step(l.heap, l.cur, "L183_test")

\* time passes: while the script runs (at most MaxScriptDelay times), and
\* while the event loop waits for the next timer
Tick ==
    /\ script = "timers"
    /\ \/ pc # "idle" /\ now < 100 * MaxScriptDelay
       \/ pc = "idle" /\ timers # {} /\ \A t \in timers : t.due > now
    /\ now' = now + 100
    /\ UNCHANGED <<inVars, pc, heap, cur, ret, console, accVars, timers,
                   objVars>>

\* function() { console.log(i); }, called by the event loop
callback(h, f) ==
    LET e == Enter(h, f, 1)
    IN ToString(Lookup(e.heap, e.cur, "i").n)

\* the event loop runs the callback of the first due timer
Fire ==
    /\ script = "timers" /\ pc = "idle"
    /\ \E t \in timers :
          /\ t.due <= now
          /\ \A u \in timers :
                u.due > t.due \/ (u.due = t.due /\ u.seq >= t.seq)
          /\ console' = Append(console, callback(heap, t.fn))
          /\ timers' = timers \ {t}
    /\ UNCHANGED <<inVars, pc, heap, cur, ret, accVars, now, objVars>>

(***************************************************************************)
(* inheritance.ts: Animal1, Snake, Horse                                   *)
(***************************************************************************)
\* constructor(theName) { this.name = theName; }, reached through super(name)
New(class, theName) == [class |-> class, name |-> theName]

\* a parameter with a default value
Default(arg, d) == IF arg = Undefined THEN Num(d) ELSE arg

\* Animal1.move(distanceInMeters = 0): the lines logged
Animal1_move(this, distanceInMeters) ==
    LET d == Default(distanceInMeters, 0)
    IN << this.name \o " moved " \o ToString(d.n) \o "m." >>

\* Snake.move(distanceInMeters = 5)
Snake_move(this, distanceInMeters) ==
    LET d == Default(distanceInMeters, 5)
    IN << "Slithering...." >> \o Animal1_move(this, d)

\* Horse.move(distanceInMeters = 45)
Horse_move(this, distanceInMeters) ==
    LET d == Default(distanceInMeters, 45)
    IN << "Galloping..." >> \o Animal1_move(this, d)

\* obj.move(arg): the method of the object's own class
move(obj, arg) ==
    CASE obj.class = "Snake" -> Snake_move(obj, arg)
      [] obj.class = "Horse" -> Horse_move(obj, arg)
      [] OTHER -> Animal1_move(obj, arg)

\* let sam = new Snake("Sammy the Python");
inheritance_L59 ==
    /\ script = "inheritance" /\ pc = "start"
    /\ sam' = New("Snake", "Sammy the Python")
    /\ pc' = "L60"
    /\ UNCHANGED <<inVars, heap, cur, ret, console, accVars, timerVars, tom,
                   clockVars>>

\* let tom: Animal = new Horse("Tommy the Palomino");
inheritance_L60 ==
    /\ script = "inheritance" /\ pc = "L60"
    /\ tom' = New("Horse", "Tommy the Palomino")
    /\ pc' = "L62"
    /\ UNCHANGED <<inVars, heap, cur, ret, console, accVars, timerVars, sam,
                   clockVars>>

\* sam.move();
inheritance_L62 ==
    /\ script = "inheritance" /\ pc = "L62"
    /\ console' = console \o move(sam, Undefined)
    /\ pc' = "L63"
    /\ UNCHANGED <<inVars, heap, cur, ret, accVars, timerVars, objVars>>

\* tom.move(34);
inheritance_L63 ==
    /\ script = "inheritance" /\ pc = "L63"
    /\ console' = console \o move(tom, Num(34))
    /\ pc' = "done"
    /\ UNCHANGED <<inVars, heap, cur, ret, accVars, timerVars, objVars>>

(***************************************************************************)
(* let-declarations.ts: foo1 and let d.  args[1] is the compiler target,   *)
(* args[2] tells whether foo1() is called before let d (as in the file)    *)
(* or after it.                                                            *)
(***************************************************************************)
\* the value of d when the script starts: in its temporal dead zone when
\* let is kept, undefined when let is emitted as var
Hoisted(target) == IF target = "ES2015" THEN Uninitialized ELSE Undefined

\* function foo1() { return d; }, called from scope `caller`
foo1(h, f, caller) ==
    LET e == Enter(h, f, caller)
    IN Lookup(e.heap, e.cur, "d")

\* the script starts: the function foo1 and the binding d exist
foo1_enter ==
    /\ script = "foo1" /\ pc = "start"
    /\ LET h0 == Declare(heap, cur, "foo1", Closure(cur, "foo1"))
           h1 == Declare(h0, cur, "d", Hoisted(args[1].s))
       IN Step(h1, cur, IF args[2].s = "before" THEN "L69" ELSE "L70")

\* foo1(): a call that throws ends the script
foo1_call ==
    /\ script = "foo1" /\ pc \in {"L69", "after"}
    /\ LET r == foo1(heap, Lookup(heap, cur, "foo1"), cur)
       IN /\ ret' = r
          /\ pc' = IF r = ReferenceError THEN "thrown"
                   ELSE IF pc = "L69" THEN "L70" ELSE "done"
    /\ UNCHANGED <<inVars, heap, cur, console, accVars, timerVars, objVars>>

\* let d;
foo1_L70 ==
    /\ script = "foo1" /\ pc = "L70"
    /\ Step(LetInit(heap, cur, "d", Undefined), cur,
            IF args[2].s = "before" THEN "done" ELSE "after")

(***************************************************************************)
(* createClock, DigitalClock, AnalogClock.  objects holds the instances    *)
(* created so far; a reference is an index into it (0: none).              *)
(***************************************************************************)
\* new ctor(h, m): the constructors of both classes have empty bodies, the
\* instance records its class only
Construct(objs, ctor, h, m) ==
    [objects |-> Append(objs, [class |-> ctor]), ref |-> Len(objs) + 1]

createClock_digital(objs, ctor, hour, minute) ==
    Construct(objs, "DigitalClock", hour, minute)

\* createClock(ctor, hour, minute) { return new ctor(hour, minute); }
createClock(objs, ctor, hour, minute) == Construct(objs, ctor, hour, minute)

\* obj.tick(): the lines logged by the method of the instance's class
tick(obj) ==
    CASE obj.class = "DigitalClock" -> << "beep beep" >>
      [] obj.class = "AnalogClock" -> << "tick tick" >>

\* let digital = createClock(DigitalClock, 12, 7);
clock_L92 ==
    /\ script = "clock" /\ pc = "start"
    /\ LET r == createClock(objects, "DigitalClock", 12, 7)
       IN objects' = r.objects /\ digital' = r.ref
    /\ pc' = "L93"
    /\ UNCHANGED <<inVars, heap, cur, ret, console, accVars, timerVars,
                   sam, tom, analog>>

\* let analog = createClock(AnalogClock, 7, 32);
clock_L93 ==
    /\ script = "clock" /\ pc = "L93"
    /\ LET r == createClock(objects, "AnalogClock", 7, 32)
       IN objects' = r.objects /\ analog' = r.ref
    /\ pc' = "done"
    /\ UNCHANGED <<inVars, heap, cur, ret, console, accVars, timerVars,
                   sam, tom, digital>>

\* tick() is called on the clock that r refers to
clock_tick(r) ==
    /\ script = "clock" /\ pc = "done"
    /\ r \in 1..Len(objects)
    /\ Len(console) < MaxLog
    /\ console' = console \o tick(objects[r])
    /\ UNCHANGED <<inVars, pc, heap, cur, ret, accVars, timerVars, objVars>>

Next ==
    \/ Call_fun \/ Call_foo \/ Call_fun1 \/ Call_theCityThatAlwaysSleeps
    \/ sumMatrix \/ sumMatrix1
    \/ \E p \in Passcodes : SetPasscode(p)
    \/ \E n \in Names : SetFullName(n)
    \/ LogEmployee5 \/ LogEmployee6
    \/ timers_L183_init \/ timers_L183_test \/ timers_L184
    \/ timers_L183_incr \/ Tick \/ Fire
    \/ inheritance_L59 \/ inheritance_L60 \/ inheritance_L62
    \/ inheritance_L63
    \/ foo1_enter \/ foo1_call \/ foo1_L70
    \/ clock_L92 \/ clock_L93
    \/ \E r \in {digital, analog} : clock_tick(r)

Spec == Init /\ [][Next]_vars

(***************************************************************************)
(* Properties                                                              *)
(***************************************************************************)
Secret == Str("secret passcode")

RECURSIVE RowSum(_)
RowSum(r) == IF r = <<>> THEN 0 ELSE r[1] + RowSum(Tail(r))

RECURSIVE SumAll(_)
SumAll(m) == IF m = <<>> THEN 0 ELSE RowSum(m[1]) + SumAll(Tail(m))

Falsy == {Undefined, Bool(FALSE), Num(0), Str("")}

\* C1: an assignment to fullName of an Employee6 stores the new name only
\* when passcode is "secret passcode" at that moment; with any other
\* passcode (the empty one too) _fullName stays as it was and the line
\* "Error: Unauthorized update of employee!" is logged instead.
C1_PasscodeGuardsUpdate ==
    /\ [][employee6' # employee6 => passcode = Secret]_vars
    /\ [][\A n \in Names :
            SetFullName(n) =>
              IF passcode = Secret
              THEN /\ employee6'._fullName = n
                   /\ console' = console
              ELSE /\ employee6' = employee6
                   /\ console' = Append(console, Unauthorized)]_vars

\* an assignment was refused: employee5 took the name, employee6 kept its
\* earlier one, and the error line was logged
C1_Witness ==
    /\ passcode = Str("")
    /\ employee5.fullName = Str("Bob Smith")
    /\ employee6._fullName = Str("Ashwani Luhaniwal")
    /\ console = <<Unauthorized>>

\* C2: while passcode stays "secret passcode", Employee6 behaves as the
\* plain-field Employee5: both read undefined at first, every assignment
\* applied to both makes both read the value just assigned, and reads that
\* agree keep agreeing.
C2_AccessorRefinesField ==
    /\ Employee6_get_fullName(employee6) = Employee5_get_fullName(employee5)
    /\ [][(passcode = Secret /\ passcode' = Secret
           /\ Employee6_get_fullName(employee6)
                = Employee5_get_fullName(employee5))
          => Employee6_get_fullName(employee6')
                = Employee5_get_fullName(employee5')]_vars
    /\ [][\A n \in Names :
            (passcode = Secret /\ SetFullName(n))
            => /\ Employee6_get_fullName(employee6') = n
               /\ Employee5_get_fullName(employee5') = n]_vars

\* two different names were assigned and read back, the last one is read
\* on both objects
C2_Witness ==
    /\ passcode = Secret
    /\ console = <<"Ashwani Luhaniwal", "Ashwani Luhaniwal", "Bob Smith">>
    /\ Employee5_get_fullName(employee5) = Str("Bob Smith")
    /\ Employee6_get_fullName(employee6) = Str("Bob Smith")

\* C3: in the for-let setTimeout loop every scheduled callback reads the
\* value i had in the iteration that scheduled it (delay / 100); the lines
\* logged are among 0..9, none is logged twice, 10 is never logged, and
\* once every timer has fired all ten have been logged.
C3_PerIterationBinding ==
    script = "timers" =>
      /\ \A t \in timers : Lookup(heap, t.fn.n, "i") = Num(t.delay \div 100)
      /\ \A k \in 1..Len(console) :
            /\ console[k] \in {ToString(j) : j \in 0..9}
            /\ \A j \in 1..Len(console) : j # k => console[j] # console[k]
      /\ (pc = "idle" /\ timers = {}) => Len(console) = 10

\* every callback has run, after a script during which time passed
C3_Witness ==
    /\ script = "timers" /\ pc = "idle" /\ timers = {}
    /\ now > 900
    /\ console = <<"0", "1", "2", "3", "4", "5", "6", "7", "8", "9">>

\* C4: sumMatrix1 returns the sum of all elements of all rows, and when
\* the inner loop over a row has ended the outer loop's i is still the
\* index of that row.
C4_SumMatrix1Correct ==
    script = "sumMatrix1" =>
      /\ pc = "done" => ret = Num(SumAll(matrix))
      /\ pc = "L132_incr" => I = Lookup(heap, cur, "currentRow").n

\* a matrix of two rows of two elements has been summed
C4_Witness ==
    /\ script = "sumMatrix1" /\ pc = "done"
    /\ matrix = <<<<1, 2>>, <<2, 2>>>>
    /\ ret = Num(7)

\* C5: in sumMatrix the inner loop writes the outer loop's i: whenever the
\* outer loop tests i after a row, i is that row's length + 1 (and the
\* row's length when the inner loop has just ended), not the next index.
C5_InnerLoopOverwritesI ==
    script = "sumMatrix" =>
      /\ pc = "L80_incr" => I = Len(CurrentRow)
      /\ (pc = "L80_test" /\ Lookup(heap, cur, "currentRow") # Undefined)
            => I = Len(CurrentRow) + 1

\* sumMatrix has returned a result that is not the sum of the elements:
\* the second row was skipped
C5_Witness ==
    /\ script = "sumMatrix" /\ pc = "done"
    /\ matrix = <<<<1>>, <<2>>>>
    /\ ret = Num(1)
    /\ ret # Num(SumAll(matrix))

\* C6: sam.move() followed by tom.move(34) logs exactly "Slithering...",
\* "Sammy the Python moved 5m.", "Galloping...",
\* "Tommy the Palomino moved 34m.", in this order.
C6_DocumentedOutput ==
    (script = "inheritance" /\ pc = "done") =>
      console = << "Slithering...", "Sammy the Python moved 5m.",
                   "Galloping...", "Tommy the Palomino moved 34m." >>

\* C7: fun() returns 2, the value a has when g is called; a is 3 when fun
\* returns.
C7_FunReturns2 ==
    (script = "fun" /\ pc = "done") =>
      /\ ret = Num(2)
      /\ Lookup(heap, cur, "a") = Num(3)

\* fun has returned
C7_Witness ==
    script = "fun" /\ pc = "done" /\ ret = Num(2)

\* C8: foo(true) returns 10 and foo(false) returns undefined.
C8_FooVarVisible ==
    (script = "foo" /\ pc = "done") =>
      ret = IF args[1] = Bool(TRUE) THEN Num(10) ELSE Undefined

\* foo(true) has returned the x that was set inside the if block
C8_Witness ==
    script = "foo" /\ pc = "done" /\ args[1] = Bool(TRUE) /\ ret = Num(10)

\* C9: fun1(condition, y) returns 100 when condition is truthy and y when
\* it is falsy, and the parameter y still holds the argument afterwards.
C9_Fun1Shadowing ==
    (script = "fun1" /\ pc = "done") =>
      /\ ret = IF args[1] \in Falsy THEN args[2] ELSE Num(100)
      /\ Lookup(heap, cur, "y") = args[2]

\* fun1 returned 100 for a truthy condition and left the parameter alone
C9_Witness ==
    /\ script = "fun1" /\ pc = "done"
    /\ args = <<Str("a"), Num(1)>>
    /\ ret = Num(100)
    /\ Lookup(heap, cur, "y") = Num(1)

\* C10: theCityThatAlwaysSleeps() returns "Seattle".
C10_CityCaptured ==
    (script = "theCityThatAlwaysSleeps" /\ pc = "done") =>
      ret = Str("Seattle")

\* the function has returned from its own scope, which does not declare
\* city: the block's scope is only reachable through the closure
C10_Witness ==
    /\ script = "theCityThatAlwaysSleeps" /\ pc = "done"
    /\ ret = Str("Seattle")
    /\ Lookup(heap, cur, "city") = ReferenceError
    /\ Lookup(heap, Lookup(heap, cur, "getCity").n, "city") = Str("Seattle")

C12_CreateClockInstantiatesCtor ==
    /\ [](script = "clock" =>
           /\ digital # 0 => objects[digital].class = "DigitalClock"
           /\ analog # 0 => /\ objects[analog].class = "AnalogClock"
                            /\ analog # digital)
    /\ [][clock_tick(digital) =>
            console' = Append(console, "beep beep")]_vars
    /\ [][clock_tick(analog) =>
            console' = Append(console, "tick tick")]_vars

\* both clocks exist and each has ticked
C12_Witness ==
    /\ script = "clock" /\ pc = "done"
    /\ digital = 1 /\ analog = 2
    /\ console = << "beep beep", "tick tick" >>

====
